---------------------------- MODULE Spec2Model ----------------------------
(***************************************************************************)
(* Federal Register Policy Explorer (SnapPolicyTimeline component).        *)
(*                                                                         *)
(* Time is counted in hours of local time since 2017-01-01T00:00 (a        *)
(* Sunday); a JavaScript Date is modelled by that hour count.  A day is a  *)
(* day index (hour count divided by 24); the text "YYYY-MM-DD" that        *)
(* fmtDate produces is modelled by the day index it denotes.               *)
(***************************************************************************)
EXTENDS Integers, Sequences, FiniteSets, TLC

\* ------------------------------------------------------------------ bounds
\* Largest total_pages value the remote reports in the bounded remote model.
MaxTotalPages == 2

\* ------------------------------------------------------- program constants
PER_PAGE == 1000
HARD_MAX == 100
\* `totalPages = Infinity`: a value above every page number is written -1
Infinity == -1
\* `_pub: ... : null` and a missing publication_date
NoDate == -1
\* 1000 * 60 * 60 * 24 * 548 ms, in hours
SPAN_THRESHOLD == 13152
HoursPerDay == 24
\* the year of day index 0
EpochYear == 2017
\* the Part select's `<option value="">All parts</option>`
AllParts == 0
\* a query that carries no conditions[cfr][title]
NoTitle == 0

\* ---------------------------------------------------------------- calendar
Years == EpochYear .. (EpochYear + 8)

IsLeap(y) == (y % 4 = 0 /\ y % 100 # 0) \/ y % 400 = 0

DaysInYear(y) == IF IsLeap(y) THEN 366 ELSE 365

DaysInMonth(y, m) ==
    IF m = 2 THEN (IF IsLeap(y) THEN 29 ELSE 28)
    ELSE IF m \in {4, 6, 9, 11} THEN 30 ELSE 31

RECURSIVE DaysBeforeYear(_)
DaysBeforeYear(y) ==
    IF y <= EpochYear THEN 0 ELSE DaysBeforeYear(y - 1) + DaysInYear(y - 1)

RECURSIVE DaysBeforeMonth(_, _)
DaysBeforeMonth(y, m) ==
    IF m <= 1 THEN 0 ELSE DaysBeforeMonth(y, m - 1) + DaysInMonth(y, m - 1)

\* the day index of each January 1st
YearStart == [y \in EpochYear .. (EpochYear + 9) |-> DaysBeforeYear(y)]

\* new Date(`${y}-${m}-${d}T00:00:00`) as a day index
DayOf(y, m, d) == YearStart[y] + DaysBeforeMonth(y, m) + (d - 1)

YearOfDay(n) ==
    CHOOSE y \in Years : YearStart[y] <= n /\ n < YearStart[y + 1]

MonthOfDay(n) ==
    LET y == YearOfDay(n)
        k == n - YearStart[y]
    IN  CHOOSE m \in 1..12 :
            DaysBeforeMonth(y, m) <= k /\ k < DaysBeforeMonth(y, m) + DaysInMonth(y, m)

DomOfDay(n) ==
    LET y == YearOfDay(n)
    IN  n - YearStart[y] - DaysBeforeMonth(y, MonthOfDay(n)) + 1

\* the day index of an instant, and the instant of a day's local midnight
DayIndex(t) == t \div HoursPerDay
Midnight(n) == n * HoursPerDay
YearOf(t) == YearOfDay(DayIndex(t))

\* fmtDate: d3.timeFormat("%Y-%m-%d"), the calendar date of an instant
fmtDate(t) == DayIndex(t)

Min(a, b) == IF a <= b THEN a ELSE b
Max(a, b) == IF a >= b THEN a ELSE b

\* d3.timeDay
timeDayFloor(t) == Midnight(DayIndex(t))
timeDayOffset(t, k) == t + k * HoursPerDay

\* d3.timeYear
timeYearFloor(t) == Midnight(YearStart[YearOf(t)])
\* setFullYear(year + k): month, day and time of day kept; Feb 29 rolls over
timeYearOffset(t, k) ==
    LET n == DayIndex(t)
        y == YearOfDay(n)
    IN  Midnight(YearStart[y + k] + DaysBeforeMonth(y + k, MonthOfDay(n))
                 + (DomOfDay(n) - 1)) + (t % HoursPerDay)

\* d3.timeYear.range(a, b): the year starts >= a and < b, ascending
RECURSIVE timeYearRangeFrom(_, _)
timeYearRangeFrom(a, b) ==
    IF a < b THEN <<a>> \o timeYearRangeFrom(timeYearOffset(a, 1), b) ELSE <<>>

timeYearRange(a, b) ==
    LET c == IF timeYearFloor(a) = a THEN a ELSE timeYearOffset(timeYearFloor(a), 1)
    IN  timeYearRangeFrom(c, b)

\* d3.timeWeek (weeks start on Sunday; day index 0 is a Sunday)
timeWeekFloor(t) == Midnight(DayIndex(t) - (DayIndex(t) % 7))
timeWeekOffset(t, k) == t + k * 7 * HoursPerDay

\* d3.timeMonth
timeMonthFloor(t) ==
    LET n == DayIndex(t) IN Midnight(n - (DomOfDay(n) - 1))
\* setMonth(month + k) on the first of a month
timeMonthOffset(t, k) ==
    LET n  == DayIndex(t)
        mm == (YearOfDay(n) * 12 + (MonthOfDay(n) - 1)) + k
    IN  Midnight(DayOf(mm \div 12, (mm % 12) + 1, DomOfDay(n))) + (t % HoursPerDay)

\* a d3 time interval, by name
intervalFloor(iv, t) ==
    CASE iv = "day"   -> timeDayFloor(t)
      [] iv = "week"  -> timeWeekFloor(t)
      [] iv = "month" -> timeMonthFloor(t)
      [] iv = "year"  -> timeYearFloor(t)

intervalOffset(iv, t, k) ==
    CASE iv = "day"   -> timeDayOffset(t, k)
      [] iv = "week"  -> timeWeekOffset(t, k)
      [] iv = "month" -> timeMonthOffset(t, k)
      [] iv = "year"  -> timeYearOffset(t, k)

\* interval.ceil
intervalCeil(iv, t) ==
    IF intervalFloor(iv, t) = t THEN t
    ELSE intervalFloor(iv, intervalOffset(iv, intervalFloor(iv, t), 1))

\* interval.range(start, stop): `do range.push(previous = new Date(+start)),
\* offseti(start, step), floori(start); while (previous < start && start < stop)`
intervalRange(iv, a, b) ==
    LET from[c \in Int] ==
            LET nxt == intervalFloor(iv, intervalOffset(iv, c, 1))
            IN  IF c < nxt /\ nxt < b THEN <<c>> \o from[nxt] ELSE <<c>>
    IN  IF ~(intervalCeil(iv, a) < b) THEN <<>> ELSE from[intervalCeil(iv, a)]

\* mutant: the pair as given
normRangeAsGiven(s, e) == <<s, e>>

\* normRange: the pair ordered (min, max)
normRange(s, e) == IF s <= e THEN <<s, e>> ELSE <<e, s>>

\* String.prototype.toUpperCase and includes, over the letters
LowerCase == "abcdefghijklmnopqrstuvwxyz"
UpperCase == "ABCDEFGHIJKLMNOPQRSTUVWXYZ"

upperChar(c) ==
    IF \E k \in 1..Len(LowerCase) : SubSeq(LowerCase, k, k) = c
    THEN LET k == CHOOSE j \in 1..Len(LowerCase) : SubSeq(LowerCase, j, j) = c
         IN  SubSeq(UpperCase, k, k)
    ELSE c

RECURSIVE toUpperCase(_)
toUpperCase(str) ==
    IF str = "" THEN ""
    ELSE upperChar(SubSeq(str, 1, 1)) \o toUpperCase(SubSeq(str, 2, Len(str)))

includes(str, sub) ==
    \E k \in 1..(Len(str) - Len(sub) + 1) : SubSeq(str, k, k + Len(sub) - 1) = sub

\* mutant: the test for RULE comes first
normalizeRuleFirst(t) ==
    LET u == toUpperCase(t)
    IN  IF includes(u, "RULE") THEN "RULE"
        ELSE IF includes(u, "PRORULE") \/ includes(u, "PROPOSED") THEN "PRORULE"
        ELSE IF includes(u, "NOTICE") THEN "NOTICE"
        ELSE IF includes(u, "PRESDOCU") \/ includes(u, "PRESIDENT") THEN "PRESDOCU"
        ELSE ""

\* normalizeDocType: the category of a raw type, "" for null
normalizeDocType(t) ==
    LET u == toUpperCase(t)
    IN  IF includes(u, "PRORULE") \/ includes(u, "PROPOSED") THEN "PRORULE"
        ELSE IF includes(u, "RULE") THEN "RULE"
        ELSE IF includes(u, "NOTICE") THEN "NOTICE"
        ELSE IF includes(u, "PRESDOCU") \/ includes(u, "PRESIDENT") THEN "PRESDOCU"
        ELSE ""

\* tickCfg(u).iv
tickCfg(u) ==
    CASE u = "days"   -> "day"
      [] u = "weeks"  -> "week"
      [] u = "months" -> "month"
      [] u = "years"  -> "year"
      [] OTHER        -> "month"

\* ------------------------------------------ Program / Structure / Parts
seq(a, b) == [k \in 1..Max(0, b - a + 1) |-> a + k - 1]

PROGRAMS == <<
  [id |-> "SNAP", structures |-> <<
     [id |-> "SNAP-7C", title |-> 7, parts |-> seq(271, 285) \o <<292>>] >>],
  [id |-> "MEDICAID", structures |-> <<
     [id |-> "MEDICAID-42C", title |-> 42, parts |-> seq(430, 456)],
     [id |-> "MEDICAID-42-CHIP", title |-> 42, parts |-> <<457>>] >>],
  [id |-> "MEDICARE", structures |-> <<
     [id |-> "MEDICARE-42B", title |-> 42, parts |-> seq(405, 429)],
     [id |-> "MEDICARE-42G", title |-> 42, parts |-> seq(482, 498)] >>],
  [id |-> "ACA", structures |-> <<
     [id |-> "ACA-45B", title |-> 45,
      parts |-> <<144, 146, 147, 148, 150, 153, 154, 155, 156, 157, 158>>],
     [id |-> "ACA-45A-1557", title |-> 45, parts |-> <<92>>],
     [id |-> "ACA-29-2590", title |-> 29, parts |-> <<2590>>],
     [id |-> "ACA-26-54", title |-> 26, parts |-> <<54>>] >>],
  [id |-> "UI", structures |-> <<
     [id |-> "UI-20V", title |-> 20,
      parts |-> <<601, 602, 603, 604, 606, 609, 614, 615, 616, 617, 618, 619,
                  620, 625, 640, 650>>] >>],
  [id |-> "FMLA", structures |-> <<
     [id |-> "FMLA-29-825", title |-> 29, parts |-> <<825>>] >> ]
>>

Range(f) == {f[k] : k \in DOMAIN f}

\* Array.prototype.find(...) || fallback
getProgram(id) ==
    IF \E k \in DOMAIN PROGRAMS : PROGRAMS[k].id = id
    THEN PROGRAMS[CHOOSE k \in DOMAIN PROGRAMS :
                     /\ PROGRAMS[k].id = id
                     /\ \A j \in 1..(k - 1) : PROGRAMS[j].id # id]
    ELSE PROGRAMS[1]

getStructure(progId, structId) ==
    LET ss == getProgram(progId).structures
    IN  IF \E k \in DOMAIN ss : ss[k].id = structId
        THEN ss[CHOOSE k \in DOMAIN ss :
                   /\ ss[k].id = structId
                   /\ \A j \in 1..(k - 1) : ss[j].id # structId]
        ELSE ss[1]

\* Fallback agency slugs per structure
STRUCTURE_AGENCY_SLUGS == [
  sid \in {"SNAP-7C", "MEDICAID-42C", "MEDICAID-42-CHIP", "MEDICARE-42B",
           "MEDICARE-42G", "ACA-45B", "ACA-45A-1557", "ACA-29-2590",
           "ACA-26-54", "UI-20V", "FMLA-29-825"} |->
    CASE sid = "SNAP-7C" -> {"food-and-nutrition-service"}
      [] sid \in {"MEDICAID-42C", "MEDICAID-42-CHIP", "MEDICARE-42B",
                  "MEDICARE-42G", "ACA-45B"} ->
            {"centers-for-medicare-medicaid-services"}
      [] sid = "ACA-45A-1557" -> {}
      [] sid = "ACA-29-2590" -> {"employee-benefits-security-administration"}
      [] sid = "ACA-26-54" -> {"internal-revenue-service"}
      [] sid = "UI-20V" -> {"employment-and-training-administration"}
      [] sid = "FMLA-29-825" -> {"wage-and-hour-division"} ]

getFallbackAgencies(structureId) ==
    IF structureId \in DOMAIN STRUCTURE_AGENCY_SLUGS
    THEN STRUCTURE_AGENCY_SLUGS[structureId] ELSE {}

\* Client-side CFR match helper.  A document's cfr_references is a set of
\* [title, part] records; refsIsArray is Array.isArray(doc.cfr_references).
docRefs(doc) == IF doc.refsIsArray THEN doc.cfr_references ELSE {}

\* mutant: the part list is not consulted
matchesTitleOnly(doc, title, parts) ==
    \E r \in docRefs(doc) : r.title = title

matchesStructure(doc, title, parts) ==
    \E r \in docRefs(doc) : r.title = title /\ r.part \in Range(parts)

\* ------------------------------------------------- the remote registry
\* The records the registry holds, newest first (order: "newest").  A record
\* without document_number has document_number = "".
RegistryDocs == <<
  [document_number |-> "", type |-> "Notice", title |-> "Sunshine Act Meeting",
   publication_date |-> DayOf(2023, 1, 2), refsIsArray |-> FALSE,
   cfr_references |-> {}, agencies |-> {"food-and-nutrition-service"}],
  [document_number |-> "2023-00002", type |-> "Proposed Rule",
   title |-> "School Meal Patterns",
   publication_date |-> DayOf(2023, 1, 1), refsIsArray |-> TRUE,
   cfr_references |-> {[title |-> 7, part |-> 210]},
   agencies |-> {"food-and-nutrition-service"}],
  [document_number |-> "2022-28001", type |-> "Rule",
   title |-> "SNAP Certification",
   publication_date |-> DayOf(2022, 12, 31), refsIsArray |-> TRUE,
   cfr_references |-> {[title |-> 7, part |-> 273]},
   agencies |-> {"food-and-nutrition-service"}],
  [document_number |-> "2022-14000", type |-> "Rule",
   title |-> "Medicaid Managed Care",
   publication_date |-> DayOf(2022, 6, 15), refsIsArray |-> TRUE,
   cfr_references |-> {[title |-> 42, part |-> 438]},
   agencies |-> {"centers-for-medicare-medicaid-services"}],
  [document_number |-> "", type |-> "Notice", title |-> "Sunshine Act Meeting",
   publication_date |-> DayOf(2021, 7, 4), refsIsArray |-> TRUE,
   cfr_references |-> {}, agencies |-> {"food-and-nutrition-service"}]
>>

\* The dedupe key: String(d.document_number || `${d.type}|${d.title}`)
docKey(d) ==
    IF d.document_number # "" THEN d.document_number
    ELSE d.type \o "|" \o d.title

Keys(ds) == {docKey(ds[k]) : k \in DOMAIN ds}

\* ingestion: `{ ...d, _pub: d.publication_date ? new Date(...T00:00:00) : null }`
withPub(d) ==
    [f \in (DOMAIN d) \cup {"_pub"} |->
        IF f = "_pub"
        THEN (IF d.publication_date # NoDate THEN Midnight(d.publication_date)
              ELSE NoDate)
        ELSE d[f]]

\* mutant: every record is pushed, seen or not
pushAll(acc, batch) == acc \o batch

\* `if (seen.has(key)) continue; seen.add(key); out.push(d)` over a batch;
\* seen is always the key set of the accumulator
RECURSIVE pushUnseen(_, _)
pushUnseen(acc, batch) ==
    IF batch = <<>> THEN acc
    ELSE pushUnseen(IF docKey(Head(batch)) \in Keys(acc) THEN acc
                    ELSE Append(acc, Head(batch)),
                    Tail(batch))

\* fetchFR's loop body over one page of results
ingestPage(all, results) ==
    pushUnseen(all, [k \in DOMAIN results |-> withPub(results[k])])

\* ------------------------------------------------------------ fetchFR
\* baseParams: the conditions of a query (the fixed per_page, order, fields
\* and type list are the same in every query and are left out)
baseParams(s0, e0, flt, skipCfrTitle, agencies) ==
    LET r == normRange(s0, e0)
        withTitle == flt.cfrTitle # NoTitle /\ ~skipCfrTitle
    IN  [gte      |-> fmtDate(r[1]),
         lte      |-> fmtDate(r[2]),
         topic    |-> flt.topic,
         agencies |-> agencies,
         cfrTitle |-> IF withTitle THEN flt.cfrTitle ELSE NoTitle,
         cfrPart  |-> IF withTitle THEN flt.cfrPart ELSE AllParts]

\* `Number.isFinite(+data?.total_pages) && +data.total_pages > 0 ? ... : totalPages`
nextTotalPages(totalPages, reported) ==
    IF reported > 0 THEN reported ELSE totalPages

pageLeq(page, totalPages) == totalPages = Infinity \/ page <= totalPages

\* mutant: the loop test without the ceiling
fetchContinuesNoCeiling(page, totalPages, length) ==
    /\ ~(length < PER_PAGE)
    /\ pageLeq(page + 1, totalPages)

\* after a page: `if (results.length < 1000) break; page += 1;` and the
\* loop test `page <= totalPages && page <= HARD_MAX`
fetchContinues(page, totalPages, length) ==
    /\ ~(length < PER_PAGE)
    /\ pageLeq(page + 1, totalPages)
    /\ page + 1 <= HARD_MAX

\* --------------------------------------------------------- fetchFRSpan
isSplit(s0, e0) ==
    LET r == normRange(s0, e0) IN ~(r[2] - r[1] < SPAN_THRESHOLD)

spanEdges(s0, e0) ==
    LET r == normRange(s0, e0)
    IN  timeYearRange(timeYearFloor(r[1]),
                      timeYearOffset(timeYearFloor(r[2]), 1))

\* mutant: a sub-range ends two days before the next year starts
subRangeShort(s0, e0, edges, i) ==
    LET r == normRange(s0, e0)
        a == edges[i]
        b == IF i + 1 <= Len(edges) THEN edges[i + 1] ELSE timeYearOffset(a, 1)
    IN  <<Max(r[1], a), Min(r[2], timeDayOffset(b, -2))>>

\* the i-th sub-range (i counts from 1): <<start, end>> passed to fetchFR
subRange(s0, e0, edges, i) ==
    LET r == normRange(s0, e0)
        a == edges[i]
        b == IF i + 1 <= Len(edges) THEN edges[i + 1] ELSE timeYearOffset(a, 1)
    IN  <<Max(r[1], a), Min(r[2], timeDayOffset(b, -1))>>

\* ----------------------------------------------------------------- load
hasRefs(d) == docRefs(d) # {}

\* mutant: the primary result is not narrowed
narrowNothing(primary, flt, s) == primary

\* "Narrow to selected structure's parts when All parts is selected"
narrowPrimary(primary, flt, s) ==
    IF flt.cfrTitle # NoTitle /\ flt.cfrPart = AllParts /\ Len(s.parts) > 0
    THEN SelectSeq(primary,
                   LAMBDA d : hasRefs(d) /\ matchesStructure(d, s.title, s.parts))
    ELSE primary

expands(flt, include) ==
    flt.cfrTitle # NoTitle /\ flt.cfrPart = AllParts /\ include

\* agencySet: slugs observed on interim, else the structure's fallback
agencySetOf(interim, structureId) ==
    LET observed == UNION {interim[k].agencies : k \in DOMAIN interim}
    IN  IF observed = {} THEN getFallbackAgencies(structureId) ELSE observed

\* mutant: the final filter is left out
keepEverything(combined, s) == combined

\* "Keep all no-ref docs; keep only structure-matching ref'd docs"
keepNoRefOrMatching(combined, s) ==
    SelectSeq(combined,
              LAMBDA d : ~hasRefs(d) \/ matchesStructure(d, s.title, s.parts))

mergeExtra(combined, extra, s) ==
    keepNoRefOrMatching(pushUnseen(combined, extra), s)

\* `FR fetch failed (${r.status})${detail ? `: ${detail.slice(0, 300)}` : ""}`
errorMessage(status, detail) ==
    "FR fetch failed (" \o status \o ")"
      \o (IF detail # "" THEN ": " \o SubSeq(detail, 1, Min(Len(detail), 300))
          ELSE "")

\* ================================================================ state
VARIABLES
    mounted,        \* whether the effect `useEffect(() => { load(); }, [])` has run
    start, end,     \* useState: Dates (hours)
    zoomUnit, bucket,
    filters,        \* [topic, programArea, structureId, cfrTitle, cfrPart]
    docs, loading, error,
    enabledTypes, includeNoCfr, active,
    loads,          \* the running invocations of load(), by slot
    net             \* requests awaiting a response, and responses awaiting their load

vars == <<mounted, start, end, zoomUnit, bucket, filters, docs, loading, error,
          enabledTypes, includeNoCfr, active, loads, net>>

viewVars == <<zoomUnit, bucket, enabledTypes, active>>
rangeVars == <<start, end>>

\* slots for invocations of load() that are in flight at the same time
LoadIds == {1, 2}

\* `new Date()` at construction: 2023-06-15T10:00
Now == Midnight(DayOf(2023, 6, 15)) + 10

\* what the user picks in the date inputs, the Program and the Part selects
StartChoices == {DayOf(2022, 12, 31)}
EndChoices == {DayOf(2023, 1, 1), DayOf(2021, 7, 1)}
ProgramChoices == {"SNAP", "MEDICAID", "ACA"}
PartChoices(s) == {AllParts} \cup (Range(s.parts) \cap {273, 438})

IdleLoad ==
    [pc |-> "idle", start |-> 0, end |-> 0,
     filters |-> [topic |-> "", programArea |-> "", structureId |-> "",
                  cfrTitle |-> NoTitle, cfrPart |-> AllParts],
     include |-> FALSE, page |-> 0, totalPages |-> Infinity,
     all |-> <<>>, edges |-> <<>>, i |-> 0, out |-> <<>>, combined |-> <<>>]

Init ==
    /\ mounted = FALSE
    /\ start = timeYearOffset(Now, -6)
    /\ end = Now
    /\ zoomUnit = "months"
    /\ bucket = TRUE
    /\ filters = [topic |-> "", programArea |-> PROGRAMS[1].id,
                  structureId |-> PROGRAMS[1].structures[1].id,
                  cfrTitle |-> PROGRAMS[1].structures[1].title,
                  cfrPart |-> AllParts]
    /\ docs = <<>>
    /\ loading = FALSE
    /\ error = ""
    /\ enabledTypes = [PRORULE |-> TRUE, RULE |-> TRUE, NOTICE |-> TRUE,
                       PRESDOCU |-> TRUE]
    /\ includeNoCfr = FALSE
    /\ active = NoDate
    /\ loads = [l \in LoadIds |-> IdleLoad]
    /\ net = {}

\* `const structure = useMemo(() => getStructure(...))` of a render's filters
structureOf(flt) == getStructure(flt.programArea, flt.structureId)

\* ------------------------------------------------------------ messages
\* what the registry answers: a 2xx page (results, results.length,
\* total_pages with 0 for a missing or unusable value) or a non-2xx response
NoAnswer ==
    [kind |-> "none", status |-> "", detail |-> "", results |-> <<>>,
     length |-> 0, total_pages |-> 0]

pageAnswer(results, length, total) ==
    [NoAnswer EXCEPT !.kind = "page", !.results = results, !.length = length,
                     !.total_pages = total]

failAnswer(status, detail) ==
    [NoAnswer EXCEPT !.kind = "fail", !.status = status, !.detail = detail]

\* `fetch(url)`: the request of load l for one page of query q
request(l, q, page) == [load |-> l, query |-> q, page |-> page, answer |-> NoAnswer]

\* the requests a handler step leaves outstanding: the one it issues, if any
issue(l, m, new) == (net \ {m}) \cup new

InFlight(l) == loads[l].pc # "idle"
Quiescent == \A l \in LoadIds : ~InFlight(l)
\* the slot a new invocation takes: the lowest one that is free
LowestFree(l) == ~InFlight(l) /\ \A k \in LoadIds : k < l => InFlight(k)

\* mutant: the expansion is requested together with the primary fetch
loadFanOut(l, include) ==
    /\ ~InFlight(l)
    /\ error' = ""
    /\ loading' = TRUE
    /\ loads' = [loads EXCEPT ![l] =
           [IdleLoad EXCEPT !.pc = "primary", !.start = start, !.end = end,
                            !.filters = filters, !.include = include,
                            !.page = 1]]
    /\ net' = net \cup
           {request(l, baseParams(start, end, filters, FALSE, {}), 1),
            request(l, baseParams(start, end, filters, TRUE,
                                  getFallbackAgencies(filters.structureId)), 1)}
    /\ UNCHANGED <<docs>>

\* ----------------------------------------------------------------- load
\* `load(opts)` up to its first await: setError(""), setLoading(true), and
\* fetchFR({ start, end, filters, skipCfrTitle: false }) up to `await fetch(url)`
load(l, include) ==
    /\ ~InFlight(l)
    /\ error' = ""
    /\ loading' = TRUE
    /\ loads' = [loads EXCEPT ![l] =
           [IdleLoad EXCEPT !.pc = "primary", !.start = start, !.end = end,
                            !.filters = filters, !.include = include,
                            !.page = 1]]
    /\ net' = net \cup {request(l, baseParams(start, end, filters, FALSE, {}), 1)}
    /\ UNCHANGED <<docs>>

\* the mount effect
Mount ==
    /\ ~mounted
    /\ mounted' = TRUE
    /\ \E l \in LoadIds : LowestFree(l) /\ load(l, includeNoCfr)
    /\ UNCHANGED <<rangeVars, viewVars, filters, includeNoCfr>>

\* the Update button: `onClick={load} disabled={loading}`
ClickUpdate ==
    /\ mounted
    /\ ~loading
    /\ \E l \in LoadIds : LowestFree(l) /\ load(l, includeNoCfr)
    /\ UNCHANGED <<mounted, rangeVars, viewVars, filters, includeNoCfr>>

\* the toggle-nocfr checkbox (hidden while a part is selected):
\* `setIncludeNoCfr(v); if (filters.cfrTitle && !filters.cfrPart) load({ includeNoCfrOverride: v })`
ToggleNoCfr ==
    /\ mounted
    /\ filters.cfrPart = AllParts
    /\ includeNoCfr' = ~includeNoCfr
    /\ IF filters.cfrTitle # NoTitle /\ filters.cfrPart = AllParts
       THEN \E l \in LoadIds : LowestFree(l) /\ load(l, ~includeNoCfr)
       ELSE UNCHANGED <<error, loading, loads, net, docs>>
    /\ UNCHANGED <<mounted, rangeVars, viewVars, filters>>

\* ------------------------------------------------- the load's continuations
\* Each continuation runs from the arrival of answer a to request m of load l
\* up to the load's next `await fetch(url)` or its end.

\* the state of fetchFR after the page in answer a has been ingested
afterPage(ld, a) ==
    [ld EXCEPT !.all = ingestPage(ld.all, a.results),
               !.totalPages = nextTotalPages(ld.totalPages, a.total_pages)]

morePages(ld, a) ==
    fetchContinues(ld.page, nextTotalPages(ld.totalPages, a.total_pages), a.length)

\* mutant: the failure path commits what the load has gathered so far
HandleErrorPartial(l, m, a) ==
    /\ a.kind = "fail"
    /\ error' = errorMessage(a.status, a.detail)
    /\ loading' = FALSE
    /\ docs' = loads[l].combined \o loads[l].all
    /\ loads' = [loads EXCEPT ![l] = IdleLoad]
    /\ net' = issue(l, m, {})
    /\ UNCHANGED <<mounted, rangeVars, viewVars, filters, includeNoCfr>>

\* `if (!r.ok) { ... throw new Error(...) }`, caught in load:
\* `catch (e) { setError(String(e?.message || e)); } finally { setLoading(false); }`
HandleError(l, m, a) ==
    /\ a.kind = "fail"
    /\ error' = errorMessage(a.status, a.detail)
    /\ loading' = FALSE
    /\ loads' = [loads EXCEPT ![l] = IdleLoad]
    /\ net' = issue(l, m, {})
    /\ UNCHANGED <<mounted, rangeVars, viewVars, filters, includeNoCfr, docs>>

\* fetchFR: the page is ingested and the loop requests the next page
HandleNextPage(l, m, a) ==
    /\ a.kind = "page"
    /\ morePages(loads[l], a)
    /\ loads' = [loads EXCEPT ![l] =
           [afterPage(loads[l], a) EXCEPT !.page = loads[l].page + 1]]
    /\ net' = issue(l, m, {request(l, m.query, loads[l].page + 1)})
    /\ UNCHANGED <<mounted, rangeVars, viewVars, filters, includeNoCfr, docs,
                   loading, error>>

\* mutant: a load whose settings are no longer the current ones discards
\* its result
commitUnlessStale(l, combined) ==
    /\ docs' = IF loads[l].filters = filters /\ loads[l].include = includeNoCfr
               THEN combined ELSE docs
    /\ loading' = FALSE
    /\ loads' = [loads EXCEPT ![l] = IdleLoad]
    /\ UNCHANGED <<mounted, rangeVars, viewVars, filters, includeNoCfr, error>>

\* `setDocs(combined)` and the finally block
commit(l, combined) ==
    /\ docs' = combined
    /\ loading' = FALSE
    /\ loads' = [loads EXCEPT ![l] = IdleLoad]
    /\ UNCHANGED <<mounted, rangeVars, viewVars, filters, includeNoCfr, error>>

\* the primary fetchFR returns and no expansion follows: the load commits
HandlePrimaryCommit(l, m, a) ==
    /\ a.kind = "page"
    /\ loads[l].pc = "primary"
    /\ ~morePages(loads[l], a)
    /\ ~expands(loads[l].filters, loads[l].include)
    /\ LET ld == loads[l]
           primary == afterPage(ld, a).all
       IN  commit(l, narrowPrimary(primary, ld.filters, structureOf(ld.filters)))
    /\ net' = issue(l, m, {})

\* fetchFRSpan's `edges`; <<>> when the range is below the threshold and
\* fetchFRSpan returns fetchFR(opts)
edgesOf(s0, e0) == IF isSplit(s0, e0) THEN spanEdges(s0, e0) ELSE <<>>

\* the first request of fetchFRSpan(opts): fetchFR(opts) below the threshold,
\* else fetchFR over the first yearly sub-range
spanFirstQuery(ld, agencies) ==
    IF isSplit(ld.start, ld.end)
    THEN LET r == subRange(ld.start, ld.end, spanEdges(ld.start, ld.end), 1)
         IN  baseParams(r[1], r[2], ld.filters, TRUE, agencies)
    ELSE baseParams(ld.start, ld.end, ld.filters, TRUE, agencies)

\* the primary fetchFR returns and "B) Optional no-CFR expansion" starts
HandlePrimaryExpand(l, m, a) ==
    /\ a.kind = "page"
    /\ loads[l].pc = "primary"
    /\ ~morePages(loads[l], a)
    /\ expands(loads[l].filters, loads[l].include)
    /\ LET ld == loads[l]
           primary == afterPage(ld, a).all
           interim == narrowPrimary(primary, ld.filters, structureOf(ld.filters))
           agencies == agencySetOf(interim, ld.filters.structureId)
       IN  /\ loads' = [loads EXCEPT ![l] =
                  [ld EXCEPT !.pc = "secondary", !.combined = interim,
                             !.page = 1, !.totalPages = Infinity,
                             !.all = <<>>, !.edges = edgesOf(ld.start, ld.end),
                             !.i = 1, !.out = <<>>]]
           /\ net' = issue(l, m, {request(l, spanFirstQuery(ld, agencies), 1)})
    /\ UNCHANGED <<mounted, rangeVars, viewVars, filters, includeNoCfr, docs,
                   loading, error>>

\* fetchFRSpan's loop test `i < edges.length` for the sub-range after the i-th
moreSpans(ld) == ld.i + 1 <= Len(ld.edges)

\* fetchFRSpan: a sub-range's batch is merged and the next sub-range is fetched
HandleNextSpan(l, m, a) ==
    /\ a.kind = "page"
    /\ loads[l].pc = "secondary"
    /\ ~morePages(loads[l], a)
    /\ moreSpans(loads[l])
    /\ LET ld == loads[l]
           batch == afterPage(ld, a).all
           r == subRange(ld.start, ld.end, ld.edges, ld.i + 1)
       IN  /\ loads' = [loads EXCEPT ![l] =
                  [ld EXCEPT !.out = pushUnseen(ld.out, batch),
                             !.i = ld.i + 1, !.page = 1,
                             !.totalPages = Infinity, !.all = <<>>]]
           /\ net' = issue(l, m,
                  {request(l, baseParams(r[1], r[2], ld.filters, TRUE,
                                         m.query.agencies), 1)})
    /\ UNCHANGED <<mounted, rangeVars, viewVars, filters, includeNoCfr, docs,
                   loading, error>>

\* what fetchFRSpan returns once its last fetchFR has returned `batch`
spanResult(ld, batch) ==
    IF ld.edges # <<>> THEN pushUnseen(ld.out, batch) ELSE batch

\* fetchFRSpan returns: extra is merged, filtered and committed
HandleSecondaryCommit(l, m, a) ==
    /\ a.kind = "page"
    /\ loads[l].pc = "secondary"
    /\ ~morePages(loads[l], a)
    /\ ~moreSpans(loads[l])
    /\ LET ld == loads[l]
           extra == spanResult(ld, afterPage(ld, a).all)
       IN  commit(l, mergeExtra(ld.combined, extra, structureOf(ld.filters)))
    /\ net' = issue(l, m, {})

\* ------------------------------------------------------ the remote registry
\* GET /documents.json.  The registry honours the conditions of the query.
serverMatch(q, d) ==
    /\ d.publication_date # NoDate
    /\ q.gte <= d.publication_date /\ d.publication_date <= q.lte
    /\ q.agencies # {} => d.agencies \cap q.agencies # {}
    /\ q.cfrTitle # NoTitle =>
          \E r \in docRefs(d) :
              r.title = q.cfrTitle /\ (q.cfrPart # AllParts => r.part = q.cfrPart)

\* the records that satisfy q, newest first
matching(q) == SelectSeq(RegistryDocs, LAMBDA d : serverMatch(q, d))

\* A page is a window of the newest-first list (windows of two pages may
\* overlap: records shift between pages as the registry grows).  A page of
\* PER_PAGE records is modelled by the records it holds in order of first
\* occurrence together with its length.
Windows(sq) ==
    {SubSeq(sq, w[1], w[2]) :
        w \in {v \in (1..(Len(sq) + 1)) \X (0..Len(sq)) : v[2] >= v[1] - 1}}

PageLengths(results, fullAllowed) ==
    {Len(results)} \cup (IF results # <<>> /\ fullAllowed THEN {PER_PAGE} ELSE {})

FailAnswers == {failAnswer("503", d) : d \in {"", "Service Unavailable"}}

\* the bounded registry: full pages are served only below page MaxTotalPages
Answers(m) ==
    FailAnswers \cup
    UNION {{pageAnswer(w, n, t) : n \in PageLengths(w, m.page < MaxTotalPages),
                                   t \in 0..MaxTotalPages} :
           w \in Windows(matching(m.query))}

Pending(m) == m \in net /\ m.answer.kind = "none"
Answered(m) == m \in net /\ m.answer.kind # "none"

respond(m, a) ==
    /\ net' = (net \ {m}) \cup {[m EXCEPT !.answer = a]}
    /\ UNCHANGED <<mounted, rangeVars, viewVars, filters, includeNoCfr, docs,
                   loading, error, loads>>

\* the registry answers a request
Respond ==
    \E m \in net : Pending(m) /\ \E a \in Answers(m) : respond(m, a)

\* `await fetch(url)` resumes: the load continues with the answer
ReceiveError == \E m \in net : Answered(m) /\ HandleError(m.load, m, m.answer)
ReceiveNextPage == \E m \in net : Answered(m) /\ HandleNextPage(m.load, m, m.answer)
ReceivePrimaryCommit ==
    \E m \in net : Answered(m) /\ HandlePrimaryCommit(m.load, m, m.answer)
ReceivePrimaryExpand ==
    \E m \in net : Answered(m) /\ HandlePrimaryExpand(m.load, m, m.answer)
ReceiveNextSpan == \E m \in net : Answered(m) /\ HandleNextSpan(m.load, m, m.answer)
ReceiveSecondaryCommit ==
    \E m \in net : Answered(m) /\ HandleSecondaryCommit(m.load, m, m.answer)

\* --------------------------------------------------------------- the user
\* `onChange={(e)=>setStart(new Date(e.target.value+"T00:00:00"))}`
SetStart ==
    /\ \E d \in StartChoices : start' = Midnight(d)
    /\ UNCHANGED <<mounted, end, viewVars, filters, includeNoCfr, docs, loading,
                   error, loads, net>>

SetEnd ==
    /\ \E d \in EndChoices : end' = Midnight(d)
    /\ UNCHANGED <<mounted, start, viewVars, filters, includeNoCfr, docs, loading,
                   error, loads, net>>

\* the effects that follow a change of filters:
\* the title sync (`if (filters.cfrTitle !== s.title) setFilters(...)`) and
\* "Reset no-CFR toggle if a specific part is chosen"
syncTitle(f) ==
    LET s == getStructure(f.programArea, f.structureId)
    IN  IF f.cfrTitle # s.title
        THEN [f EXCEPT !.cfrTitle = s.title, !.cfrPart = AllParts] ELSE f

\* mutant: the part-reset effect is left out
setFiltersNoReset(f) ==
    /\ filters' = syncTitle(f)
    /\ UNCHANGED <<mounted, rangeVars, viewVars, includeNoCfr, docs, loading,
                   error, loads, net>>

\* the part-reset effect has `[filters.cfrPart]` as dependencies: it runs in
\* the render after cfrPart changed
setFilters(f) ==
    /\ filters' = syncTitle(f)
    /\ includeNoCfr' = IF /\ syncTitle(f).cfrPart # filters.cfrPart
                          /\ syncTitle(f).cfrPart # AllParts
                       THEN FALSE ELSE includeNoCfr
    /\ UNCHANGED <<mounted, rangeVars, viewVars, docs, loading, error, loads, net>>

\* mutant: the Program select leaves the part as it is
SelectProgramKeepPart ==
    \E id \in ProgramChoices :
        LET prog == getProgram(id)
            first == prog.structures[1]
        IN  /\ filters' = [filters EXCEPT !.programArea = prog.id,
                                          !.structureId = first.id,
                                          !.cfrTitle = first.title]
            /\ UNCHANGED <<mounted, rangeVars, viewVars, includeNoCfr, docs,
                           loading, error, loads, net>>

SelectProgram ==
    \E id \in ProgramChoices :
        LET prog == getProgram(id)
            first == prog.structures[1]
        IN  setFilters([filters EXCEPT !.programArea = prog.id,
                                       !.structureId = first.id,
                                       !.cfrTitle = first.title,
                                       !.cfrPart = AllParts])

SelectStructure ==
    \E s \in Range(getProgram(filters.programArea).structures) :
        setFilters([filters EXCEPT !.structureId = s.id,
                                   !.cfrTitle =
                                       getStructure(filters.programArea, s.id).title,
                                   !.cfrPart = AllParts])

SelectPart ==
    \E part \in PartChoices(structureOf(filters)) :
        setFilters([filters EXCEPT !.cfrPart = part])

\* ------------------------------------------------------------------- Spec
\* The user acts between loads: one load is in flight at a time.
Next ==
    \/ Mount
    \/ Respond
    \/ ReceiveError
    \/ ReceiveNextPage
    \/ ReceivePrimaryCommit
    \/ ReceivePrimaryExpand
    \/ ReceiveNextSpan
    \/ ReceiveSecondaryCommit
    \/ (Quiescent /\ ClickUpdate)
    \/ (Quiescent /\ ToggleNoCfr)
    \/ (Quiescent /\ SetStart)
    \/ (Quiescent /\ SetEnd)
    \/ (Quiescent /\ SelectProgram)
    \/ (Quiescent /\ SelectStructure)
    \/ (Quiescent /\ SelectPart)

Spec == Init /\ [][Next]_vars

\* ------------------------------------------------------ Series and chart
\* `const interval = bucket ? iv : d3.timeDay`
seriesInterval(zoom, agg) == IF agg THEN tickCfg(zoom) ELSE "day"

\* mutant: the range of bins stops at floor(e0)
seriesBinsOpenEnd(s1, e1, zoom, agg) ==
    LET r    == normRange(s1, e1)
        iv   == seriesInterval(zoom, agg)
        s0   == timeDayFloor(r[1])
        e0   == timeDayFloor(r[2])
        bins == intervalRange(iv, intervalFloor(iv, s0), intervalFloor(iv, e0))
    IN  IF bins = <<>> THEN <<intervalFloor(iv, s0)>> ELSE bins

\* `bins`, with the fallback `if (!bins?.length) bins = [interval.floor(s0)]`
seriesBins(s1, e1, zoom, agg) ==
    LET r    == normRange(s1, e1)
        iv   == seriesInterval(zoom, agg)
        s0   == timeDayFloor(r[1])
        e0   == timeDayFloor(r[2])
        bins == intervalRange(iv, intervalFloor(iv, s0),
                              intervalOffset(iv, intervalFloor(iv, e0), 1))
    IN  IF bins = <<>> THEN <<intervalFloor(iv, s0)>> ELSE bins

\* mutant: the enabled types are not consulted
countedAnyKind(doc, types) ==
    LET kind == normalizeDocType(doc.type)
    IN  IF doc._pub = NoDate THEN "" ELSE kind

\* the category under which the Series counts a document, "" if it skips it:
\* `if (!doc || !doc._pub) continue; ... if (!kind) continue;
\*  if (!enabledTypes[kind]) continue;`
countedKind(doc, types) ==
    LET kind == normalizeDocType(doc.type)
    IN  IF doc._pub = NoDate \/ kind = "" THEN ""
        ELSE IF types[kind] THEN kind ELSE ""

\* the loop `for (const doc of docs || [])`: the <<bin key, category>> of
\* each document the Series counts, in order
RECURSIVE seriesEntries(_, _, _)
seriesEntries(ds, iv, types) ==
    IF ds = <<>> THEN <<>>
    ELSE LET kind == countedKind(Head(ds), types)
         IN  (IF kind = "" THEN <<>>
              ELSE << <<intervalFloor(iv, Head(ds)._pub), kind>> >>)
             \o seriesEntries(Tail(ds), iv, types)

\* mutant: the total leaves the presidential documents out
seriesRowShortTotal(dt, entries) ==
    LET count(kind) ==
            Cardinality({k \in DOMAIN entries : entries[k] = <<dt, kind>>})
    IN  [date |-> dt, pr |-> count("PRORULE"), ru |-> count("RULE"),
         no |-> count("NOTICE"), pd |-> count("PRESDOCU"),
         tot |-> count("PRORULE") + count("RULE") + count("NOTICE")]

\* the row of a bin: `bins.map((dt) => { const c = map.get(key(dt)) || init();
\* ...; return { date: dt, pr, ru, no, pd, tot: pr+ru+no+pd }; })`
seriesRow(dt, entries) ==
    LET count(kind) ==
            Cardinality({k \in DOMAIN entries : entries[k] = <<dt, kind>>})
    IN  [date |-> dt, pr |-> count("PRORULE"), ru |-> count("RULE"),
         no |-> count("NOTICE"), pd |-> count("PRESDOCU"),
         tot |-> count("PRORULE") + count("RULE") + count("NOTICE")
                   + count("PRESDOCU")]

\* `series`: one row per bin, with the counts of the documents whose
\* publication date floors to the bin (bins and entries are computed once)
series(ds, s1, e1, zoom, agg, types) ==
    CHOOSE sr \in
        {[j \in DOMAIN bins |-> seriesRow(bins[j], entries)] :
            bins \in {seriesBins(s1, e1, zoom, agg)},
            entries \in {seriesEntries(ds, seriesInterval(zoom, agg), types)}} :
        TRUE

\* mutant: bucketMap keeps the documents of disabled types
bucketKeptAnyType(d, types) ==
    /\ d._pub # NoDate
    /\ normalizeDocType(d.type) # ""

\* bucketMap's loop: whether a document enters the map
\* `if (!d || !d._pub) continue; ... if (!kType || !enabledTypes[kType]) continue;`
bucketKept(d, types) ==
    /\ d._pub # NoDate
    /\ \E kType \in {normalizeDocType(d.type)} : kType # "" /\ types[kType]

\* `bucketMap.get(key)`: the documents pushed under `+interval.floor(d._pub)`,
\* in the order of docs (<<>> for a key the map does not hold)
bucketMapGet(ds, iv, types, key) ==
    SelectSeq(ds, LAMBDA d : /\ d._pub # NoDate
                             /\ intervalFloor(iv, d._pub) = key
                             /\ bucketKept(d, types))

\* the raw types of the model's records in the order of String.localeCompare
TypeCollation ==
    <<"Notice", "Presidential Document", "Proposed Rule", "PROPOSED_RULE",
      "PRORULE", "Rule", "Uncategorized Document">>

typeRank(t) == CHOOSE k \in DOMAIN TypeCollation : TypeCollation[k] = t

\* `arr.slice().sort((a, b) => String(a.type).localeCompare(String(b.type)))`:
\* a stable sort by type
RECURSIVE sortByType(_)
sortByType(ds) ==
    IF ds = <<>> THEN <<>>
    ELSE LET lowest == CHOOSE k \in DOMAIN ds :
                           \A j \in DOMAIN ds :
                               \/ typeRank(ds[k].type) < typeRank(ds[j].type)
                               \/ (typeRank(ds[k].type) = typeRank(ds[j].type)
                                   /\ k <= j)
         IN  <<ds[lowest]>>
             \o sortByType(SubSeq(ds, 1, lowest - 1)
                           \o SubSeq(ds, lowest + 1, Len(ds)))

\* `bucketDocs`: the drill-down list of the selected bucket
bucketDocs(ds, act, zoom, agg, types) ==
    IF act = NoDate THEN <<>>
    ELSE sortByType(bucketMapGet(ds, seriesInterval(zoom, agg), types,
                                 intervalFloor(seriesInterval(zoom, agg), act)))

\* the drill-down list of the current render
BucketDocs == bucketDocs(docs, active, zoomUnit, bucket, enabledTypes)

\* the Series of the current render
Series == series(docs, start, end, zoomUnit, bucket, enabledTypes)

\* `drawSeries`: the rows with a valid date
drawSeries(sr) == SelectSeq(sr, LAMBDA r : r.date # NoDate)

\* the chart effect returns before it installs the overlay when
\* `!drawSeries.length || drawSeries.every((d) => (d?.tot ?? 0) === 0)`
chartDrawn(ds) == ds # <<>> /\ \E k \in DOMAIN ds : ds[k].tot # 0

Abs(n) == IF n < 0 THEN -n ELSE n

\* d3.bisector((d) => d.date).left over rows in ascending date order
bisect(ds, x0) == Cardinality({k \in DOMAIN ds : ds[k].date < x0})

\* the click handler's index into drawSeries (counted from 0)
clickIndex(ds, x0) ==
    LET i == Max(0, Min(Len(ds) - 1, bisect(ds, x0)))
    IN  IF i > 0 /\ i < Len(ds)
           /\ Abs(x0 - ds[i].date) < Abs(x0 - ds[i + 1].date)
        THEN i - 1 ELSE i

\* `drawSeries[i]?.date`
clickTarget(ds, x0) == ds[clickIndex(ds, x0) + 1].date

\* `x.invert(cx)` with cx clamped to the chart: an instant of the domain
\* normRange(start, end).  The instants tried are the two ends of the domain
\* and, around the first and the last pairs of adjacent rows, the row dates,
\* the instant midway and the hours beside it.
ClickPoints(ds, s1, e1) ==
    LET r     == normRange(s1, e1)
        pairs == {k \in 1..(Len(ds) - 1) : k <= 2 \/ k >= Len(ds) - 2}
        near(k) == LET a == ds[k].date
                       b == ds[k + 1].date
                       mid == (a + b) \div 2
                   IN  {a, mid - 1, mid, mid + 1, b}
    IN  {x \in {r[1], r[2]} \cup UNION {near(k) : k \in pairs} :
            r[1] <= x /\ x <= r[2]}

\* --------------------------------------------------------------- SpecView
\* The chart over a committed document set: the range, the zoom unit, the
\* aggregate flag and the enabled types vary.
ZoomUnits == {"days", "weeks", "months", "years"}
TypeChoices == {"RULE", "NOTICE"}
\* start and end are drawn from one of these sets of instants
ViewDates ==
    {{Midnight(DayOf(2022, 12, 28)) + 10, Midnight(DayOf(2023, 1, 1)),
      Midnight(DayOf(2023, 1, 3)), Midnight(DayOf(2023, 3, 15))},
     {Midnight(DayOf(2023, 12, 31)) + 10, Midnight(DayOf(2024, 2, 29)),
      Midnight(DayOf(2024, 3, 1))}}
\* further records a load may have committed: raw types in other spellings,
\* a type of no category, a record without publication date
ViewExtraDocs == <<
  [document_number |-> "2024-04100", type |-> "Uncategorized Document",
   title |-> "Correction", publication_date |-> DayOf(2024, 3, 1),
   refsIsArray |-> TRUE, cfr_references |-> {},
   agencies |-> {"food-and-nutrition-service"}],
  [document_number |-> "2024-04000", type |-> "PRORULE",
   title |-> "SNAP Work Requirements", publication_date |-> DayOf(2024, 2, 29),
   refsIsArray |-> TRUE, cfr_references |-> {[title |-> 7, part |-> 273]},
   agencies |-> {"food-and-nutrition-service"}],
  [document_number |-> "2023-00030", type |-> "Presidential Document",
   title |-> "Executive Order on Nutrition", publication_date |-> DayOf(2023, 1, 2),
   refsIsArray |-> FALSE, cfr_references |-> {}, agencies |-> {}],
  [document_number |-> "2023-00020", type |-> "Uncategorized Document",
   title |-> "Correction", publication_date |-> DayOf(2023, 1, 1),
   refsIsArray |-> TRUE, cfr_references |-> {},
   agencies |-> {"food-and-nutrition-service"}],
  [document_number |-> "2023-00010", type |-> "PROPOSED_RULE",
   title |-> "SNAP Standard Utility Allowances",
   publication_date |-> DayOf(2023, 1, 1), refsIsArray |-> TRUE,
   cfr_references |-> {[title |-> 7, part |-> 273]},
   agencies |-> {"food-and-nutrition-service"}],
  [document_number |-> "2022-27000", type |-> "Rule",
   title |-> "SNAP Technical Amendment", publication_date |-> NoDate,
   refsIsArray |-> TRUE, cfr_references |-> {[title |-> 7, part |-> 273]},
   agencies |-> {"food-and-nutrition-service"}]
>>

ViewDocSets ==
    {<<>>, ingestPage(<<>>, RegistryDocs),
     ingestPage(ingestPage(<<>>, ViewExtraDocs), RegistryDocs)}

InitView ==
    /\ mounted = TRUE
    /\ \E c \in ViewDates : start \in c /\ end \in c
    /\ zoomUnit \in ZoomUnits
    /\ bucket \in BOOLEAN
    /\ filters = [topic |-> "", programArea |-> PROGRAMS[1].id,
                  structureId |-> PROGRAMS[1].structures[1].id,
                  cfrTitle |-> PROGRAMS[1].structures[1].title,
                  cfrPart |-> AllParts]
    /\ docs \in ViewDocSets
    /\ loading = FALSE
    /\ error = ""
    /\ enabledTypes = [PRORULE |-> TRUE, RULE |-> TRUE, NOTICE |-> TRUE,
                       PRESDOCU |-> TRUE]
    /\ includeNoCfr = FALSE
    /\ active = NoDate
    /\ loads = [l \in LoadIds |-> IdleLoad]
    /\ net = {}

\* `onChange={(e)=>setZoomUnit(e.target.value)}`
SetZoomUnit ==
    /\ \E u \in ZoomUnits : zoomUnit' = u
    /\ UNCHANGED <<mounted, rangeVars, bucket, enabledTypes, active, filters,
                   includeNoCfr, docs, loading, error, loads, net>>

\* `onChange={(e)=>setBucket(e.target.checked)}`
SetBucket ==
    /\ bucket' = ~bucket
    /\ UNCHANGED <<mounted, rangeVars, zoomUnit, enabledTypes, active, filters,
                   includeNoCfr, docs, loading, error, loads, net>>

\* `onChange={(e)=>setEnabledTypes(v=>({ ...v, RULE: e.target.checked }))}`
ToggleType ==
    /\ \E k \in TypeChoices :
          enabledTypes' = [enabledTypes EXCEPT ![k] = ~enabledTypes[k]]
    /\ UNCHANGED <<mounted, rangeVars, zoomUnit, bucket, active, filters,
                   includeNoCfr, docs, loading, error, loads, net>>

\* the dates a click can select in the current render: none when the chart
\* is not drawn, else `drawSeries[i]?.date` for each instant clicked
ClickTargets ==
    UNION {IF chartDrawn(ds)
           THEN {clickTarget(ds, x0) : x0 \in ClickPoints(ds, start, end)}
           ELSE {} :
           ds \in {drawSeries(Series)}}

\* `overlay.on("click", ...)`: `setActive(drawSeries[i]?.date || null)`
Click ==
    /\ \E t \in ClickTargets : active' = t
    /\ UNCHANGED <<mounted, rangeVars, zoomUnit, bucket, enabledTypes, filters,
                   includeNoCfr, docs, loading, error, loads, net>>

\* `onClick={()=>setActive(null)}`
ClearActive ==
    /\ active # NoDate
    /\ active' = NoDate
    /\ UNCHANGED <<mounted, rangeVars, zoomUnit, bucket, enabledTypes, filters,
                   includeNoCfr, docs, loading, error, loads, net>>

NextView ==
    \/ SetZoomUnit
    \/ SetBucket
    \/ ToggleType
    \/ Click
    \/ ClearActive

SpecView == InitView /\ [][NextView]_vars

\* -------------------------------------------------------------- SpecPages
\* One paginated fetch against a registry that serves full pages on every
\* page and reports no total, a small total or a total above the ceiling.
ReportedTotals == {0, 3, HARD_MAX + 20}

AnswersUnbounded(m) ==
    FailAnswers \cup
    UNION {{pageAnswer(w, n, t) : n \in PageLengths(w, TRUE),
                                   t \in ReportedTotals} :
           w \in Windows(matching(m.query))}

RespondUnbounded ==
    \E m \in net : Pending(m) /\ \E a \in AnswersUnbounded(m) : respond(m, a)

NextPages ==
    \/ Mount
    \/ RespondUnbounded
    \/ ReceiveError
    \/ ReceiveNextPage
    \/ ReceivePrimaryCommit

SpecPages == Init /\ [][NextPages]_vars

\* -------------------------------------------------------------- SpecFixed
\* Loads against a fixed data set: the registry answers every request with
\* all the records that satisfy it, in one short page.
AnswersExact(m) ==
    {pageAnswer(matching(m.query), Len(matching(m.query)), t) : t \in {0, 1}}

RespondExact ==
    \E m \in net : Pending(m) /\ \E a \in AnswersExact(m) : respond(m, a)

NextFixed ==
    \/ Mount
    \/ RespondExact
    \/ ReceivePrimaryCommit
    \/ ReceivePrimaryExpand
    \/ ReceiveNextSpan
    \/ ReceiveSecondaryCommit
    \/ (Quiescent /\ ClickUpdate)
    \/ (Quiescent /\ ToggleNoCfr)
    \/ (Quiescent /\ SetStart)
    \/ (Quiescent /\ SetEnd)
    \/ (Quiescent /\ SelectProgram)
    \/ (Quiescent /\ SelectStructure)
    \/ (Quiescent /\ SelectPart)

SpecFixed == Init /\ [][NextFixed]_vars

\* --------------------------------------------------------------- SpecRace
\* Loads that overlap: the user acts while a load is in flight.  The Update
\* button is disabled by `loading` alone and the toggle-nocfr checkbox calls
\* load() unconditionally.  At most two invocations (LoadIds) run at a time;
\* the registry answers as in SpecFixed.
NextRace ==
    \/ Mount
    \/ RespondExact
    \/ ReceivePrimaryCommit
    \/ ReceivePrimaryExpand
    \/ ReceiveNextSpan
    \/ ReceiveSecondaryCommit
    \/ ClickUpdate
    \/ ToggleNoCfr
    \/ SelectProgram
    \/ SelectPart

SpecRace == Init /\ [][NextRace]_vars

\* ================================================================ claims
\* the identity of a record: its document number if present, otherwise the
\* (type, title) composite
identity(d) ==
    IF d.document_number # "" THEN <<"number", d.document_number>>
    ELSE <<"composite", d.type, d.title>>

\* C1: the document set committed to state never holds two records with the
\* same identity.
C1_NoDuplicateIdentity ==
    \A j, k \in DOMAIN docs : j # k => identity(docs[j]) # identity(docs[k])

\* C1 witness: a load with the expansion over a year-split range has
\* committed: the set holds a record identified by its composite that was
\* published in 2021 (only a range above the threshold reaches it, and only
\* the expansion brings records without references) beside other records.
C1_Witness ==
    /\ Quiescent /\ error = ""
    /\ Len(docs) >= 2
    /\ \E k \in DOMAIN docs :
          /\ docs[k].document_number = ""
          /\ YearOfDay(docs[k].publication_date) = 2021

\* the structural references of a record (none when the field is missing)
references(d) == IF d.refsIsArray THEN d.cfr_references ELSE {}

matchesSelected(d, flt) ==
    LET s == getStructure(flt.programArea, flt.structureId)
    IN  \E r \in references(d) :
            r.title = s.title /\ \E k \in DOMAIN s.parts : s.parts[k] = r.part

\* C2: when a request of a load is answered non-2xx, the load ends at once:
\* it leaves no request outstanding, the error message is non-empty, loading
\* is false and docs is unchanged; and docs does not change while a load is
\* in flight, so it is what it was when the load started.
C2_FailedLoadCommitsNothing ==
    [][ /\ \A m \in net :
             (m.answer.kind = "fail" /\ m \notin net') =>
                 /\ \A m2 \in net' : m2.load # m.load
                 /\ loads'[m.load].pc = "idle"
                 /\ error' # ""
                 /\ loading' = FALSE
                 /\ docs' = docs
        /\ (\E l \in LoadIds : loads'[l].pc # "idle") => docs' = docs
      ]_vars

\* C2 witness: a load has failed while an earlier load's documents are shown.
C2_Witness ==
    /\ Quiescent /\ error # "" /\ ~loading /\ docs # <<>>
    /\ includeNoCfr /\ filters.cfrPart = AllParts

\* the total page count a fetch goes by once it has read answer a
usableTotal(ld, a) == IF a.total_pages > 0 THEN a.total_pages ELSE ld.totalPages

\* the fetch that sent m has its next request outstanding after the step
continuesWith(m, p) ==
    \E m2 \in net' : m2.load = m.load /\ m2.query = m.query /\ m2.page = p

\* a step of a paginated fetch: a request that follows none of its fetch
\* asks for page 1; the answer to page p is followed by the request for page
\* p + 1 unless the fetch stops, and by no other request of the fetch
paginationStep ==
    /\ \A m \in net' :
          (\A m0 \in net : m0.load # m.load \/ m0.query # m.query) => m.page = 1
    /\ \A m \in net :
          (m.answer.kind = "page" /\ m \notin net') =>
              LET total == usableTotal(loads[m.load], m.answer)
                  stops == \/ m.answer.length < PER_PAGE
                           \/ (total # Infinity /\ m.page >= total)
                           \/ m.page = HARD_MAX
              IN  /\ stops => \A m2 \in net' :
                                 m2.load # m.load \/ m2.query # m.query
                  /\ ~stops => continuesWith(m, m.page + 1)
                  /\ \A m2 \in net' :
                         (m2.load = m.load /\ m2.query = m.query)
                             => m2.page = m.page + 1

\* C3: a paginated fetch asks for page 1, then for the next page each time,
\* and after the answer to page p it stops if the page is short, or p has
\* reached the latest usable reported total, or p = 100, and goes on
\* otherwise; no request asks for a page above 100.
C3_PaginationBounded ==
    /\ [](\A m \in net : m.page >= 1 /\ m.page <= HARD_MAX)
    /\ [][paginationStep]_vars

\* C3 witness: the 100th request has been answered with a full page by a
\* registry that never reported a usable total.
C3_Witness ==
    \E m \in net :
        /\ m.page = HARD_MAX
        /\ m.answer.kind = "page" /\ m.answer.length = PER_PAGE
        /\ m.answer.total_pages = 0
        /\ loads[m.load].totalPages = Infinity

\* the requested range of a load exceeds the span-split threshold
exceedsThreshold(ld) ==
    normRange(ld.start, ld.end)[2] - normRange(ld.start, ld.end)[1] > SPAN_THRESHOLD

\* C4 (as claimed): every request of a load whose range exceeds the threshold
\* asks for a date range inside a single calendar year.
C4_EveryRequestWithinOneYear ==
    \A m \in net :
        exceedsThreshold(loads[m.load]) =>
            YearOfDay(m.query.gte) = YearOfDay(m.query.lte)

\* the requests of the year-split fetch of a load
splitRequests(l) ==
    {m \in net : m.load = l /\ loads[l].pc = "secondary" /\ loads[l].edges # <<>>}

identities(ds) == {identity(ds[k]) : k \in DOMAIN ds}

\* the last sub-range of a year-split fetch has been answered, by a short page
splitAnswered(m) ==
    /\ m \in splitRequests(m.load)
    /\ m.answer.kind = "page" /\ m.answer.length < PER_PAGE
    /\ loads[m.load].i = Len(loads[m.load].edges)

\* the sub-ranges requested lie in the range, the first starts on the start
\* date, the last ends on the end date; the records gathered are distinct
\* and, once the last is answered, their identities are those of the records
\* that satisfy the same query over the whole range
splitCovers ==
    \A l \in LoadIds : \A m \in splitRequests(l) :
        LET ld == loads[l]
            r  == normRange(ld.start, ld.end)
        IN  /\ fmtDate(r[1]) <= m.query.gte /\ m.query.gte <= m.query.lte
            /\ m.query.lte <= fmtDate(r[2])
            /\ ld.i = 1 => m.query.gte = fmtDate(r[1])
            /\ ld.i = Len(ld.edges) => m.query.lte = fmtDate(r[2])
            /\ \A j, k \in DOMAIN ld.out :
                   j # k => identity(ld.out[j]) # identity(ld.out[k])
            /\ splitAnswered(m) =>
                   identities(ld.out) \cup identities(ld.all)
                           \cup identities(m.answer.results)
                     = identities(matching([m.query EXCEPT !.gte = fmtDate(r[1]),
                                                           !.lte = fmtDate(r[2])]))

\* a sub-range starts on the day after the one before it ends
splitConsecutive ==
    \A m \in net : \A m2 \in net' :
        (/\ m \in splitRequests(m.load) /\ m2.load = m.load /\ m \notin net'
         /\ loads'[m.load].i = loads[m.load].i + 1)
            => m2.query.gte = m.query.lte + 1

\* C5: against a fixed data set, the sub-ranges of a year-split fetch are
\* consecutive and disjoint and cover every day from the start date to the
\* end date, and the fetch returns the identities that one fetch of the whole
\* range returns, each once.
C5_SplitEqualsUnsplit ==
    /\ []splitCovers
    /\ [][splitConsecutive]_vars

\* C5 witness: the last sub-range of a split fetch is answered; a record of
\* December 31st came with an earlier sub-range and one of January 1st comes
\* with this one.
C5_Witness ==
    \E m \in net :
        /\ splitAnswered(m)
        /\ \E k \in DOMAIN loads[m.load].out :
              loads[m.load].out[k].publication_date = DayOf(2022, 12, 31)
        /\ \E k \in DOMAIN m.answer.results :
              m.answer.results[k].publication_date = DayOf(2023, 1, 1)

\* the number of interval steps from boundary f0 to boundary f1
intervalSteps(iv, f0, f1) ==
    LET months(t) == YearOf(t) * 12 + MonthOfDay(DayIndex(t))
    IN  CASE iv = "day"   -> (f1 - f0) \div HoursPerDay
          [] iv = "week"  -> (f1 - f0) \div (7 * HoursPerDay)
          [] iv = "month" -> months(f1) - months(f0)
          [] iv = "year"  -> YearOf(f1) - YearOf(f0)

\* the rows of sr are the boundaries of iv from floor(s) to floor(e), in order
contiguous(sr, iv, s, e) ==
    /\ Len(sr) >= 1
    /\ Len(sr) = intervalSteps(iv, intervalFloor(iv, s), intervalFloor(iv, e)) + 1
    /\ sr[1].date = intervalFloor(iv, s)
    /\ sr[Len(sr)].date = intervalFloor(iv, e)
    /\ \A k \in DOMAIN sr : intervalFloor(iv, sr[k].date) = sr[k].date
    /\ \A k \in 1..(Len(sr) - 1) :
          /\ sr[k].date < sr[k + 1].date
          /\ sr[k + 1].date = intervalOffset(iv, sr[k].date, 1)

\* C6: for every start, end and granularity the Series has one bucket for
\* each interval boundary from floor(start) to floor(end), in increasing
\* order and one interval apart; its length is the number of steps between
\* the floors plus one, never zero, whatever documents are loaded.
C6_SeriesContiguous ==
    \A sr \in {Series} :
        contiguous(sr, IF bucket THEN tickCfg(zoomUnit) ELSE "day",
                   normRange(start, end)[1], normRange(start, end)[2])

\* C6 witness: the dates are swapped, rules are switched off, a bucket has
\* been selected and the Series has twelve weekly buckets.
C6_Witness ==
    /\ start > end /\ zoomUnit = "weeks" /\ bucket
    /\ ~enabledTypes.RULE /\ active # NoDate
    /\ Len(Series) = 12

\* C7 (as claimed): a click selects the bucket nearest to the instant
\* clicked, and the earlier of two buckets when the instant is midway.
C7_NearestEarlierOnTie ==
    \A ds \in {drawSeries(Series)} :
        chartDrawn(ds) =>
            \A x0 \in ClickPoints(ds, start, end) :
                LET t == clickTarget(ds, x0)
                IN  /\ \A k \in DOMAIN ds : Abs(x0 - t) <= Abs(x0 - ds[k].date)
                    /\ \A k \in 1..(Len(ds) - 1) :
                          x0 - ds[k].date = ds[k + 1].date - x0
                              => t = ds[k].date

\* a load commits in this step
commits(l) == loads[l].pc # "idle" /\ loads'[l].pc = "idle" /\ error' = ""

\* C8: a load with "all parts" and include-unreferenced commits only records
\* that have no structural reference or have one that matches the selected
\* structure.
C8_ExpansionContainment ==
    [][ \A l \in LoadIds :
          (/\ commits(l)
           /\ loads[l].filters.cfrPart = AllParts
           /\ loads[l].include) =>
              \A k \in DOMAIN docs' :
                  \/ references(docs'[k]) = {}
                  \/ matchesSelected(docs'[k], loads[l].filters)
      ]_vars

\* C8 witness: after such a load the set holds a record without references
\* and a record that matches the structure.
C8_Witness ==
    /\ Quiescent /\ error = "" /\ includeNoCfr /\ filters.cfrPart = AllParts
    /\ \E k \in DOMAIN docs : references(docs[k]) = {}
    /\ \E k \in DOMAIN docs : matchesSelected(docs[k], filters)

\* C9: a load with "all parts" and include-unreferenced off commits exactly
\* the records of the primary fetch result that match the selected structure,
\* in their order.
C9_NarrowedToStructure ==
    [][ \A m \in net :
          (/\ m.answer.kind = "page" /\ m \notin net'
           /\ commits(m.load)
           /\ loads[m.load].filters.cfrPart = AllParts
           /\ ~loads[m.load].include) =>
              docs' = SelectSeq(ingestPage(loads[m.load].all, m.answer.results),
                                LAMBDA d : matchesSelected(d, loads[m.load].filters))
      ]_vars

\* C9 witness: such a load has committed the matching record alone.
C9_Witness ==
    /\ Quiescent /\ error = "" /\ ~includeNoCfr /\ filters.cfrPart = AllParts
    /\ Len(docs) = 1 /\ matchesSelected(docs[1], filters)

\* C10: a load has at most one request outstanding, and it is a request of
\* the fetch the load is in: no request of the expansion is outstanding before
\* the primary fetch has returned.
C10_OneRequestAtATime ==
    \A l \in LoadIds :
        /\ Cardinality({m \in net : m.load = l}) <= 1
        /\ \A m \in net :
              m.load = l =>
                  /\ loads[l].pc \in {"primary", "secondary"}
                  /\ loads[l].pc = "primary" <=> m.query.cfrTitle # NoTitle

\* C10 witness: the expansion is past its first sub-range and waits for the
\* second page of a sub-range.
C10_Witness ==
    \E m \in net :
        /\ m.answer.kind = "none" /\ m.page = 2
        /\ loads[m.load].pc = "secondary" /\ loads[m.load].i >= 2

\* the identities a load with the settings of ld commits when the registry
\* answers every request with all the records that satisfy it
loadResult(ld) ==
    LET flt      == ld.filters
        allParts == flt.cfrTitle # NoTitle /\ flt.cfrPart = AllParts
        primary  == matching(baseParams(ld.start, ld.end, flt, FALSE, {}))
        interim  == IF allParts
                    THEN SelectSeq(primary, LAMBDA d : matchesSelected(d, flt))
                    ELSE primary
        observed == UNION {interim[k].agencies : k \in DOMAIN interim}
        agencies == IF observed = {} THEN getFallbackAgencies(flt.structureId)
                    ELSE observed
        extra    == matching(baseParams(ld.start, ld.end, flt, TRUE, agencies))
        kept(ds) == SelectSeq(ds, LAMBDA d : \/ references(d) = {}
                                            \/ matchesSelected(d, flt))
    IN  IF allParts /\ ld.include
        THEN identities(kept(interim)) \cup identities(kept(extra))
        ELSE identities(interim)

\* a step writes docs only when a load commits, and then docs is that load's
\* own result, whatever the current settings and the other load are
lastWriteWins ==
    /\ \A l \in LoadIds :
          commits(l) => identities(docs') = loadResult(loads[l])
    /\ (\A l \in LoadIds : ~commits(l)) => docs' = docs

\* the toggle-nocfr checkbox starts a load although another one is in flight
noInFlightGuard ==
    (/\ mounted /\ filters.cfrPart = AllParts
     /\ \E l \in LoadIds : InFlight(l)
     /\ \E l \in LoadIds : ~InFlight(l)) => ENABLED ToggleNoCfr

\* C11: a load can be started while another is in flight, and each load that
\* completes writes its own result to docs: once overlapping loads have
\* finished docs is the result of the one that wrote last, even if it was
\* started first with settings that are no longer current.
C11_LastWriteWins ==
    /\ []noInFlightGuard
    /\ [][lastWriteWins]_vars

\* C11 witness: include-unreferenced is on with all parts of the first SNAP
\* structure and no load is running, yet docs is the narrowed result of a
\* load started with the flag off (it holds no record without references):
\* that load was overtaken by the toggle's load and wrote last.
C11_Witness ==
    /\ Quiescent /\ mounted /\ error = ""
    /\ includeNoCfr /\ filters.cfrPart = AllParts
    /\ filters.structureId = PROGRAMS[1].structures[1].id
    /\ docs # <<>>
    /\ \A k \in DOMAIN docs : references(docs[k]) # {}
    /\ identities(docs) #
           loadResult([start |-> start, end |-> end, filters |-> filters,
                       include |-> includeNoCfr])

\* a step that selects a specific part leaves the flag off, and no step
\* switches the flag on while a specific part is selected
partStep ==
    /\ (filters'.cfrPart # AllParts /\ filters'.cfrPart # filters.cfrPart)
          => ~includeNoCfr'
    /\ (filters.cfrPart # AllParts /\ ~includeNoCfr) => ~includeNoCfr'

\* C12: when a specific part becomes selected the include-unreferenced flag
\* is off once the selection has been processed, the flag is not switched on
\* while a specific part is selected, and so in every state a specific part
\* implies that the flag is off.
C12_PartExcludesInclude ==
    /\ [](filters.cfrPart # AllParts => ~includeNoCfr)
    /\ [][partStep]_vars

\* C12 witness: a specific part is selected and the flag is off, while docs
\* still holds a record without references from the last load, which
\* succeeded with the flag on: the selection of the part switched it off.
C12_Witness ==
    /\ Quiescent /\ error = ""
    /\ filters.cfrPart # AllParts /\ ~includeNoCfr
    /\ \E k \in DOMAIN docs : references(docs[k]) = {}

\* the query of the request a load is waiting for, computed for the load's
\* dates exchanged: the primary query, or the query of the expansion (of its
\* i-th yearly sub-range when the range is split)
swappedQuery(ld, agencies) ==
    LET s == ld.end
        e == ld.start
    IN  IF ld.pc = "primary" THEN baseParams(s, e, ld.filters, FALSE, {})
        ELSE IF isSplit(s, e)
        THEN LET r == subRange(s, e, spanEdges(s, e), ld.i)
             IN  baseParams(r[1], r[2], ld.filters, TRUE, agencies)
        ELSE baseParams(s, e, ld.filters, TRUE, agencies)

\* every outstanding request, and the number of sub-ranges of its fetch, is
\* what it would be with the load's dates exchanged
swapSameRequests ==
    \A m \in net :
        LET ld == loads[m.load]
        IN  /\ m.query = swappedQuery(ld, m.query.agencies)
            /\ ld.pc = "secondary" => ld.edges = edgesOf(ld.end, ld.start)

\* the Series of the render is what it would be with the dates exchanged
swapSameSeries ==
    \A sr \in {Series} :
        sr = series(docs, end, start, zoomUnit, bucket, enabledTypes)

\* a load commits what a load with the dates exchanged commits
swapSameCommit ==
    \A l \in LoadIds :
        commits(l) =>
            identities(docs') =
                loadResult([loads[l] EXCEPT !.start = loads[l].end,
                                            !.end = loads[l].start])

\* C13: exchanging start and end changes neither the requests a load issues
\* (conditions and order), nor the documents it commits, nor the Series.
C13_SwapInvisible ==
    /\ [](swapSameRequests /\ swapSameSeries)
    /\ [][swapSameCommit]_vars

\* C13 witness: a load started with start later than end, over a range that
\* is split by year, has the answer to its last sub-range and is about to
\* commit, and the Series is drawn for the same exchanged dates.
C13_Witness ==
    /\ start > end
    /\ \E m \in net :
          /\ splitAnswered(m)
          /\ loads[m.load].start = start /\ loads[m.load].end = end
          /\ loads[m.load].i >= 2

\* raw type strings: the registry's spellings in several cases, and strings
\* of no category
RawTypes ==
    {"PRORULE", "prorule", "PROPOSED_RULE", "proposed_rule", "Proposed Rule",
     "proposed rule", "PROPOSED RULE", "Rule", "rule", "RULE", "Final Rule",
     "Notice", "notice", "NOTICE", "Presidential Document",
     "PRESIDENTIAL DOCUMENT", "presdocu", "PRESDOCU", "Uncategorized Document",
     "Correction", ""}

Categories == {"PRORULE", "RULE", "NOTICE", "PRESDOCU"}

\* the normalization of the raw types: one category or none, the same for
\* strings that differ in case only, the proposed-rule spellings map to
\* PRORULE
normalizesTypes ==
    /\ \A t \in RawTypes : normalizeDocType(t) \in Categories \cup {""}
    /\ \A a, b \in RawTypes :
          toUpperCase(a) = toUpperCase(b) => normalizeDocType(a) = normalizeDocType(b)
    /\ \A t \in RawTypes :
          toUpperCase(t) \in {"PRORULE", "PROPOSED_RULE", "PROPOSED RULE"}
              => normalizeDocType(t) = "PRORULE"

uncategorized(d) == normalizeDocType(d.type) = ""

\* C14: a raw type maps to one of the four categories or to none, whatever
\* its case; "PRORULE", "PROPOSED_RULE" and "Proposed Rule" map to PRORULE;
\* and a document of no category changes no count of the Series and is in
\* the drill-down list of no bucket.
C14_TypeNormalization ==
    /\ normalizesTypes
    /\ \A k \in DOMAIN docs :
          normalizeDocType(docs[k].type) \in Categories \cup {""}
    /\ \A sr \in {Series} :
          /\ sr = series(SelectSeq(docs, LAMBDA d : ~uncategorized(d)),
                         start, end, zoomUnit, bucket, enabledTypes)
          /\ \A j \in DOMAIN sr :
                \A bd \in {bucketDocs(docs, sr[j].date, zoomUnit, bucket,
                                       enabledTypes)} :
                    \A k \in DOMAIN bd : ~uncategorized(bd[k])
    /\ \A k \in DOMAIN BucketDocs : ~uncategorized(BucketDocs[k])

\* C14 witness: the selected bucket is the one a document of no category is
\* published in, beside a document spelled PROPOSED_RULE that the drill-down
\* list holds.
C14_Witness ==
    /\ active # NoDate
    /\ \E k \in DOMAIN docs :
          /\ uncategorized(docs[k]) /\ docs[k]._pub # NoDate
          /\ intervalFloor(seriesInterval(zoomUnit, bucket), docs[k]._pub) = active
    /\ \E k \in DOMAIN BucketDocs : BucketDocs[k].type = "PROPOSED_RULE"

\* every structure of the taxonomy
AllStructures == UNION {Range(PROGRAMS[i].structures) : i \in DOMAIN PROGRAMS}

\* references a record may carry, and records with every combination of them;
\* a record whose field is not an array may still hold something in it
RefChoices ==
    {[title |-> 7, part |-> 273], [title |-> 7, part |-> 210],
     [title |-> 42, part |-> 438], [title |-> 42, part |-> 273]}
ProbeDocs ==
    {[refsIsArray |-> a, cfr_references |-> rs] :
        a \in BOOLEAN, rs \in SUBSET RefChoices}

\* the structural match of d against (title, parts) is true exactly when a
\* reference of d has the title and a part of the list, and false when d
\* has no reference or no array of references
matchAsStated(d, title, parts) ==
    /\ d.refsIsArray =>
          (matchesStructure(d, title, parts) <=>
              \E r \in d.cfr_references :
                  r.title = title /\ \E k \in DOMAIN parts : parts[k] = r.part)
    /\ (~d.refsIsArray \/ d.cfr_references = {}) => ~matchesStructure(d, title, parts)

probesMatchAsStated ==
    \A d \in ProbeDocs : \A st \in AllStructures :
        matchAsStated(d, st.title, st.parts)

\* the records a load holds or is being sent
recordsOf(l) ==
    Range(loads[l].all) \cup Range(loads[l].combined) \cup Range(loads[l].out)
      \cup UNION {Range(m.answer.results) : m \in {n \in net : n.load = l}}

\* C15: for every record and every structure, matchesStructure is true iff
\* some reference of the record has the structure's title and a part of its
\* part list; a record without references, or without the field, never
\* matches.
C15_MatchesStructureIff ==
    /\ probesMatchAsStated
    /\ \A l \in LoadIds : \A d \in recordsOf(l) \cup Range(docs) :
          matchAsStated(d, structureOf(loads[l].filters).title,
                        structureOf(loads[l].filters).parts)

\* C15 witness: the primary result of a load has been narrowed to the record
\* that matches its structure, and the expansion is answered with a record
\* without the references field and a record of the same title whose part
\* is outside the structure.
C15_Witness ==
    \E m \in net :
        LET ld == loads[m.load]
            st == structureOf(ld.filters)
        IN  /\ ld.pc = "secondary" /\ m.answer.kind = "page"
            /\ \E k \in DOMAIN ld.combined :
                  matchesStructure(ld.combined[k], st.title, st.parts)
            /\ \E k \in DOMAIN m.answer.results : ~m.answer.results[k].refsIsArray
            /\ \E k \in DOMAIN m.answer.results :
                  /\ \E r \in m.answer.results[k].cfr_references : r.title = st.title
                  /\ ~matchesStructure(m.answer.results[k], st.title, st.parts)

\* C16: in every Series each bucket's four category counts are natural
\* numbers and its total is their sum.
C16_TotalIsSum ==
    \A sr \in {Series} : \A j \in DOMAIN sr :
        /\ {sr[j].pr, sr[j].ru, sr[j].no, sr[j].pd} \subseteq Nat
        /\ sr[j].tot = sr[j].pr + sr[j].ru + sr[j].no + sr[j].pd

\* C16 witness: with rules switched off, a bucket counts proposed rules,
\* notices and presidential documents together.
C16_Witness ==
    /\ ~enabledTypes.RULE
    /\ \E ru \in {k \in DOMAIN docs : docs[k]._pub # NoDate} :
          normalizeDocType(docs[ru].type) = "RULE"
    /\ \E sr \in {Series} : \E j \in DOMAIN sr :
          /\ sr[j].pr >= 2 /\ sr[j].no >= 1 /\ sr[j].pd >= 1 /\ sr[j].ru = 0
          /\ sr[j].tot >= 4

\* non-empty explicit agency lists
AgencyLists ==
    {ag \in SUBSET {"food-and-nutrition-service",
                    "centers-for-medicare-medicaid-services"} : ag # {}}

\* the filter states of the current render and of the running loads
filterStates == {filters} \cup {loads[l].filters : l \in {k \in LoadIds : InFlight(k)}}

\* C17 (as claimed): a query built with a non-empty agency list carries the
\* agency condition and no structural title or part condition, whatever the
\* filter state and the suppress-title flag.
C17_AgencyListReplacesStructure ==
    /\ \A flt \in filterStates : \A skipCfrTitle \in BOOLEAN :
          \A agencies \in AgencyLists :
              \A q \in {baseParams(start, end, flt, skipCfrTitle, agencies)} :
                  /\ q.agencies = agencies
                  /\ q.cfrTitle = NoTitle /\ q.cfrPart = AllParts
    /\ \A m \in net :
          m.query.agencies # {} =>
              m.query.cfrTitle = NoTitle /\ m.query.cfrPart = AllParts

\* for each document of docs: its category and its publication date floored
\* to the interval of the Series, if it is retained (it has a category, the
\* category is enabled, it has a parsed publication date); <<>> if not
retainedAt ==
    [k \in DOMAIN docs |->
        LET cat == normalizeDocType(docs[k].type)
        IN  IF cat \in Categories /\ enabledTypes[cat] /\ docs[k]._pub # NoDate
            THEN <<cat, intervalFloor(seriesInterval(zoomUnit, bucket),
                                      docs[k]._pub)>>
            ELSE <<>>]

\* the number of documents retained under category cat at bucket date dt
retainedCount(at, cat, dt) == Cardinality({k \in DOMAIN at : at[k] = <<cat, dt>>})

\* C18: the count of a category in a bucket is the number of documents of
\* that category, enabled, with a parsed publication date whose floor is the
\* bucket's date; a retained document whose floored date lies between the
\* first and the last bucket falls in exactly one bucket, one whose floored
\* date lies outside falls in none.
C18_CountsAreDocuments ==
    \A sr \in {Series} : \A at \in {retainedAt} :
        /\ \A j \in DOMAIN sr :
              /\ sr[j].pr = retainedCount(at, "PRORULE", sr[j].date)
              /\ sr[j].ru = retainedCount(at, "RULE", sr[j].date)
              /\ sr[j].no = retainedCount(at, "NOTICE", sr[j].date)
              /\ sr[j].pd = retainedCount(at, "PRESDOCU", sr[j].date)
        /\ \A k \in DOMAIN at :
              at[k] # <<>> =>
                  Cardinality({j \in DOMAIN sr : sr[j].date = at[k][2]})
                    = IF sr[1].date <= at[k][2] /\ at[k][2] <= sr[Len(sr)].date
                      THEN 1 ELSE 0

\* C18 witness: notices are switched off; the document set holds a record
\* without publication date, retained records published before the range,
\* and a retained proposed rule that a bucket of the range counts.
C18_Witness ==
    /\ ~enabledTypes.NOTICE /\ active # NoDate
    /\ \E k \in DOMAIN docs : docs[k]._pub = NoDate
    /\ \E k \in DOMAIN docs : normalizeDocType(docs[k].type) = "NOTICE"
    /\ \E sr \in {Series} :
          /\ \E k \in DOMAIN docs :
                retainedAt[k] # <<>> /\ retainedAt[k][2] < sr[1].date
          /\ \E j \in DOMAIN sr : sr[j].pr = 1 /\ sr[j].tot = 1

\* the documents the Series counts in the bucket of date dt
countedIn(at, dt) == {docs[k] : k \in {i \in DOMAIN at : at[i] # <<>> /\ at[i][2] = dt}}

\* the number of documents of category cat in the list bd
listCount(bd, cat) ==
    Cardinality({k \in DOMAIN bd : normalizeDocType(bd[k].type) = cat})

\* the drill-down list bd of the bucket row: the documents counted in the
\* bucket, each once, as many per category as the row counts
listMatchesRow(bd, row, at) ==
    /\ Len(bd) = row.tot
    /\ Range(bd) = countedIn(at, row.date)
    /\ Cardinality(Range(bd)) = Len(bd)
    /\ listCount(bd, "PRORULE") = row.pr /\ listCount(bd, "RULE") = row.ru
    /\ listCount(bd, "NOTICE") = row.no /\ listCount(bd, "PRESDOCU") = row.pd

\* C19: for every bucket of the Series, the drill-down list obtained by
\* selecting the bucket holds exactly the documents counted in the bucket;
\* its length is the bucket's tot.
C19_DrillDownParity ==
    \A sr \in {Series} : \A at \in {retainedAt} :
        /\ \A j \in DOMAIN sr :
              \A bd \in {bucketDocs(docs, sr[j].date, zoomUnit, bucket,
                                     enabledTypes)} :
                  listMatchesRow(bd, sr[j], at)
        /\ \A j \in DOMAIN sr :
              active = sr[j].date => listMatchesRow(BucketDocs, sr[j], at)

\* C19 witness: with notices switched off, the selected bucket is one a
\* notice was published in, and its drill-down list holds the three or more
\* other documents that the bucket counts.
C19_Witness ==
    /\ ~enabledTypes.NOTICE /\ active # NoDate
    /\ Len(BucketDocs) >= 3
    /\ \E k \in DOMAIN docs :
          /\ normalizeDocType(docs[k].type) = "NOTICE" /\ docs[k]._pub # NoDate
          /\ intervalFloor(seriesInterval(zoomUnit, bucket), docs[k]._pub) = active
    /\ \E sr \in {Series} : \E j \in DOMAIN sr :
          sr[j].date = active /\ sr[j].tot = Len(BucketDocs)

\* C20 (as claimed): every request of the expansion fetch carries a
\* non-empty agency condition, whatever structure is selected and whatever
\* the primary fetch returned.
C20_ExpansionCarriesAgencies ==
    \A m \in net :
        loads[m.load].pc = "secondary" => m.query.agencies # {}

\* C21 (as claimed): whenever a load is in flight the loading flag is true,
\* and so the Update button cannot start a load.
C21_LoadingWhileInFlight ==
    (\E l \in LoadIds : InFlight(l)) => (loading /\ ~ENABLED ClickUpdate)

\* the filter state f names a program of the taxonomy, a structure of that
\* program, that structure's title, and no part or a part of that structure
selfConsistent(f) ==
    \E i \in DOMAIN PROGRAMS :
        /\ PROGRAMS[i].id = f.programArea
        /\ \E j \in DOMAIN PROGRAMS[i].structures :
              LET st == PROGRAMS[i].structures[j]
              IN  /\ st.id = f.structureId
                  /\ f.cfrTitle = st.title
                  /\ \/ f.cfrPart = AllParts
                     \/ \E k \in DOMAIN st.parts : st.parts[k] = f.cfrPart

\* a step that changes the program area or the structure leaves "all parts"
selectionResetsPart ==
    (filters'.programArea # filters.programArea
        \/ filters'.structureId # filters.structureId)
      => filters'.cfrPart = AllParts

\* C22: after any sequence of program, structure and part selections the
\* filter state is self-consistent (the structure belongs to the program,
\* the title is the structure's, the part is empty or one of the
\* structure's), also as captured by every running load; a change of
\* program or structure resets the part to "all parts".
C22_FiltersSelfConsistent ==
    /\ [](/\ selfConsistent(filters)
          /\ \A l \in LoadIds : InFlight(l) => selfConsistent(loads[l].filters))
    /\ [][selectionResetsPart]_vars

\* C22 witness: a part of the first Medicaid structure has been selected and
\* loaded, then the second Medicaid structure (same title, other parts) was
\* selected: the part is "all parts" again while docs still holds the record
\* of the part.
C22_Witness ==
    /\ Quiescent /\ error = ""
    /\ filters.structureId = PROGRAMS[2].structures[2].id
    /\ filters.cfrPart = AllParts
    /\ docs # <<>>
    /\ \A k \in DOMAIN docs :
          \E r \in references(docs[k]) : r.title = 42 /\ r.part = 438

=============================================================================
